---- MODULE Spec2Model ----
(***************************************************************************)
(* CrowdCounter: the per-room detection pipelines (backend/detector) and   *)
(* the manager that owns them, as they run on the single asyncio event     *)
(* loop of the backend process.                                            *)
(*                                                                         *)
(* Numbers: the smoothing factor is kept in tenths (0.3 is 3), the         *)
(* confidence threshold in hundredths (0.35 is 35), the smoothed count in  *)
(* units of 1/SmoothScale.                                                 *)
(***************************************************************************)
EXTENDS Integers, Sequences, FiniteSets, TLC

\* ---------------------------------------------------------------- bounds
MaxPipelines == 3         \* RoomProcessor objects created in one run
MaxCalls == 2             \* manager calls suspended in stop() at one time
MaxLoops == 2             \* RoomProcessor objects created where loops fail or settings change
MaxReads == 7             \* consecutive failed reads recorded for one CameraCapture
MaxUpdates == 3           \* update() calls made on one PeopleCounter
MaxPasses == 2            \* broadcast passes in progress at one time

\* ------------------------------------------------------ program constants
MaxReconnectAttempts == 5

\* ------------------------------------------------------------ input sets
Rooms == {"a", "b"}
NoPipe == 0
Pipes == 1..MaxPipelines
Unset == -1
SmoothScale == 10 * 10 * 10
RawCounts == {4}

\* one PeopleCounter driven on its own: the raw counts, the arguments of
\* set_alpha (tenths) and the capacity of its room
CounterRaws == {0, 10, 20}
AlphaInputs == {-5, 3, 5, 15}
CounterCapacity == 100

\* arguments of add_room(room_id, camera_url, capacity, is_active)
AddInputs ==
  { [room_id |-> "a", camera_url |-> "0", capacity |-> 100, is_active |-> TRUE],
    [room_id |-> "a", camera_url |-> "rtsp://cam", capacity |-> 100, is_active |-> FALSE],
    [room_id |-> "b", camera_url |-> "0", capacity |-> 0, is_active |-> TRUE] }

\* the settings dict passed to update_settings (a partial update)
SettingsInputs ==
  { [smoothing_alpha |-> 5],
    [confidence_threshold |-> 50, detection_interval |-> 30, imgsz |-> 1280],
    [model |-> "yolo26m.pt", smoothing_alpha |-> 15] }

ConnectOutcomes == {"opened", "failed", "raised"}
ReadOutcomes == {"ok", "fail", "raise"}
CallOutcomes == {"ok", "raise"}

\* ----------------------------------------------------------------- state
VARIABLES
  settings,      \* DetectionManager._settings
  engine,        \* DetectionEngine: model_path, loaded
  rooms,         \* DetectionManager._rooms: room id -> pipeline (NoPipe: absent)
  created,       \* number of RoomProcessor objects constructed so far
  proc,          \* RoomProcessor fields and the state of its loop task
  camera,        \* CameraCapture of each RoomProcessor
  counter,       \* PeopleCounter of each RoomProcessor
  watch,         \* the pipeline whose loop iterations are recorded in cycle
  cycle,         \* what the current (or last) loop iteration of watch did
  calls,         \* add_room/remove_room calls suspended at "await self._task"
  busy,          \* the coroutine that holds the event-loop thread in a blocking call
  stopReturned,  \* pipelines on which a stop() has returned
  sawOpen,       \* pipelines whose start() connected while a pipeline of the room was live
  add_result,    \* how the last add_room call that ran to its end ended
  shut,          \* DetectionManager.shutdown(): its position and the room ids still to remove
  camlog,        \* what the calls made on one CameraCapture did (reads, connects, result)
  ctrlog,        \* the calls made on one PeopleCounter and what they returned
  dashboard_connections,  \* ConnectionManager._dashboard_connections
  room_connections,       \* ConnectionManager._room_connections: room id -> set
  passes,        \* the broadcast passes of the ConnectionManager in progress
  accepted       \* the WebSocket objects whose handler has called connect_*

vars == <<settings, engine, rooms, created, proc, camera, counter,
          watch, cycle, calls, busy, stopReturned, sawOpen, add_result,
          shut, camlog, ctrlog, dashboard_connections, room_connections, passes,
          accepted>>

\* the state of the ConnectionManager, and the records of calls
HubVars == <<dashboard_connections, room_connections, passes, accepted>>
LogVars == <<camlog, ctrlog>>

Idle == [p |-> NoPipe, phase |-> "idle"]

\* ------------------------------------------------------------ PeopleCounter
PeopleCounter == [alpha |-> 3, smoothed |-> Unset, raw |-> 0]

Clamp(alpha) == IF alpha < 0 THEN 0 ELSE IF alpha > 10 THEN 10 ELSE alpha

\* a set_alpha that stores its argument as it is
set_alpha_unclamped(c, alpha) == [c EXCEPT !.alpha = alpha]

set_alpha(c, alpha) == [c EXCEPT !.alpha = Clamp(alpha)]

\* round(): nearest integer, ties to the even one
round(x) ==
  LET q == x \div SmoothScale
      r == x % SmoothScale
  IN IF 2 * r < SmoothScale THEN q
     ELSE IF 2 * r > SmoothScale THEN q + 1
     ELSE IF q % 2 = 0 THEN q ELSE q + 1

smoothed_count(c) == IF c.smoothed = Unset THEN 0 ELSE round(c.smoothed)

\* an update whose first call smooths against a previous value of 0
update_lagged(c, raw) ==
  [c EXCEPT !.raw = raw,
            !.smoothed = IF c.smoothed = Unset
                         THEN (c.alpha * raw * SmoothScale) \div 10
                         ELSE (c.alpha * raw * SmoothScale + (10 - c.alpha) * c.smoothed) \div 10]

update(c, raw) ==
  [c EXCEPT !.raw = raw,
            !.smoothed = IF c.smoothed = Unset
                         THEN raw * SmoothScale
                         ELSE (c.alpha * raw * SmoothScale + (10 - c.alpha) * c.smoothed) \div 10]

\* an occupancy that is the fraction count / capacity, not a percentage
occupancy_fraction(count, capacity) ==
  IF capacity > 0 THEN (count * SmoothScale) \div capacity ELSE 0

\* occupancy in thousandths of a percent
occupancy(count, capacity) ==
  IF capacity > 0 THEN (count * 100 * SmoothScale) \div capacity ELSE 0

\* a reset that clears the last raw count and keeps the smoothed value
reset_keeps_smoothed(c) == [c EXCEPT !.raw = 0]

reset(c) == [c EXCEPT !.smoothed = Unset, !.raw = 0]

\* ------------------------------------------------------------ CameraCapture
CameraCapture(source) ==
  [source |-> source, cap |-> "none", connected |-> FALSE,
   last_frame |-> FALSE, attempts |-> 0]

\* a connect() that does not reset the attempt counter
connect_keeps_attempts(cam, outcome) ==
  IF outcome = "opened"
  THEN [cam EXCEPT !.cap = "open", !.connected = TRUE]
  ELSE IF outcome = "failed"
  THEN [cam EXCEPT !.cap = "closed"]
  ELSE cam

\* connect(): "opened" - the capture opens; "failed" - a capture object is
\* stored but isOpened() is false; "raised" - cv2.VideoCapture raises
connect(cam, outcome) ==
  IF outcome = "opened"
  THEN [cam EXCEPT !.cap = "open", !.connected = TRUE, !.attempts = 0]
  ELSE IF outcome = "failed"
  THEN [cam EXCEPT !.cap = "closed"]
  ELSE cam

\* a _handle_disconnect that does not count the attempt
handle_disconnect_uncounted(cam) ==
  [cam EXCEPT !.connected = FALSE]

handle_disconnect(cam) ==
  [cam EXCEPT !.connected = FALSE, !.attempts = @ + 1]

\* a disconnect() that clears the flag and keeps the capture handle
disconnect_flag_only(cam) ==
  [cam EXCEPT !.connected = FALSE]

disconnect(cam) ==
  [cam EXCEPT !.cap = "none", !.connected = FALSE]

\* ------------------------------------------------------------ DetectionEngine
reload_model(e, model, ok) ==
  IF ok THEN [e EXCEPT !.model_path = model, !.loaded = TRUE]
  ELSE [e EXCEPT !.model_path = model]

\* ------------------------------------------------------------ RoomProcessor
RoomProcessor(inp) ==
  [room_id |-> inp.room_id, capacity |-> inp.capacity, running |-> FALSE,
   task |-> "none", cancel |-> FALSE,
   interval |-> 0, confidence |-> 0, imgsz |-> 0, last_frame |-> FALSE]

BlankInput == [room_id |-> "", camera_url |-> "", capacity |-> 0, is_active |-> FALSE]

NewCycle ==
  [prev_raised |-> FALSE, out |-> "none", saved |-> FALSE, dash |-> FALSE,
   room |-> FALSE, count |-> 0, occupancy |-> 0]

\* the loop task exists and has not finished
TaskAlive(pr) == pr.task \notin {"none", "done"}

\* the task is suspended at an await (or has not run yet)
Suspended(pr) == pr.task \in {"new", "save", "dash", "room", "sleep"}

\* the manager-side objects as one value, so that the synchronous parts of
\* add_room/remove_room/stop/start compose in the order the code runs them
Mgr ==
  [rooms |-> rooms, created |-> created, proc |-> proc, camera |-> camera,
   counter |-> counter, stopReturned |-> stopReturned, sawOpen |-> sawOpen,
   add_result |-> add_result]

\* a RoomProcessor that nothing refers to any more: it is not registered, no
\* suspended call awaits it and it has no unfinished task
Garbage(m, cs, p) ==
  /\ p \in 1..m.created
  /\ \A r \in Rooms : m.rooms[r] # p
  /\ \A i \in DOMAIN cs : cs[i].target # p
  /\ m.proc[p].task \in {"none", "done"}

\* of a garbage object only the task and capture state are kept
Collect(m, cs) ==
  [m EXCEPT
     !.proc = [p \in Pipes |->
                 IF Garbage(m, cs, p)
                 THEN [@[p] EXCEPT !.capacity = 0, !.interval = 0, !.confidence = 0,
                                   !.imgsz = 0, !.last_frame = FALSE]
                 ELSE @[p]],
     !.camera = [p \in Pipes |->
                   IF Garbage(m, cs, p)
                   THEN [@[p] EXCEPT !.source = "", !.last_frame = FALSE, !.attempts = 0]
                   ELSE @[p]],
     !.counter = [p \in Pipes |-> IF Garbage(m, cs, p) THEN PeopleCounter ELSE @[p]]]

Install(m0, cs) ==
  \E m1 \in {m0} : \E m \in {Collect(m1, cs)} :
     /\ rooms' = m.rooms
     /\ created' = m.created
     /\ proc' = m.proc
     /\ camera' = m.camera
     /\ counter' = m.counter
     /\ stopReturned' = m.stopReturned
     /\ sawOpen' = m.sawOpen
     /\ add_result' = m.add_result
     /\ calls' = cs

Live(m, p) == TaskAlive(m.proc[p]) \/ m.camera[p].cap = "open"

\* a stop() that clears the run flag and does not cancel the task
stop_begin_flag_only(m, p) ==
  [m EXCEPT !.proc[p].running = FALSE]

\* stop(), up to "await self._task"
stop_begin(m, p) ==
  [m EXCEPT !.proc[p].running = FALSE,
            !.proc[p].cancel = @ \/ TaskAlive(m.proc[p])]

\* a stop() that cancels the task and does not await it
stop_never_awaits(m, p) == FALSE

\* "await self._task" suspends the stop() while the task has not finished
stop_awaits(m, p) == TaskAlive(m.proc[p])

\* a stop() that returns without camera.disconnect()
stop_finish_keeps_camera(m, p) ==
  [m EXCEPT !.stopReturned = @ \cup {p}]

\* stop(), after the awaited task has finished
stop_finish(m, p) ==
  [m EXCEPT !.camera[p] = disconnect(@),
            !.stopReturned = @ \cup {p}]

del_room(m, r) == [m EXCEPT !.rooms[r] = NoPipe]

\* a start() that ignores the result of camera.connect()
start_unchecked(m, p, interval, confidence, imgsz, alpha, outcome) ==
  IF m.proc[p].running THEN m
  ELSE [m EXCEPT !.counter[p] = set_alpha(@, alpha),
                 !.camera[p] = connect(@, outcome),
                 !.proc[p].running = TRUE,
                 !.proc[p].task = "new",
                 !.proc[p].interval = interval,
                 !.proc[p].confidence = confidence,
                 !.proc[p].imgsz = imgsz]

start(m, p, interval, confidence, imgsz, alpha, outcome) ==
  IF m.proc[p].running THEN m
  ELSE LET others == {q \in 1..m.created :
                        /\ q # p
                        /\ m.proc[q].room_id = m.proc[p].room_id
                        /\ Live(m, q)}
           m1 == [m EXCEPT !.counter[p] = set_alpha(@, alpha),
                           !.camera[p] = connect(@, outcome),
                           !.sawOpen = IF others # {} THEN @ \cup {p} ELSE @]
       IN IF outcome # "opened" THEN m1
          ELSE [m1 EXCEPT !.proc[p].running = TRUE,
                          !.proc[p].task = "new",
                          !.proc[p].interval = interval,
                          !.proc[p].confidence = confidence,
                          !.proc[p].imgsz = imgsz]

new_processor(m, inp) ==
  LET p == m.created + 1
  IN [m EXCEPT !.created = p,
               !.proc[p] = RoomProcessor(inp),
               !.camera[p] = CameraCapture(inp.camera_url),
               !.counter[p] = PeopleCounter,
               !.rooms[inp.room_id] = p]

\* add_room from "processor = RoomProcessor(...)" on: start() returns None
\* whether the camera connected or not, and add_room falls off its end
add_room_tail(m, inp, outcome) ==
  LET m1 == new_processor(m, inp)
      m2 == IF inp.is_active
            THEN start(m1, m1.created, settings.detection_interval,
                           settings.confidence_threshold, settings.imgsz,
                           settings.smoothing_alpha, outcome)
            ELSE m1
  IN [m2 EXCEPT !.add_result = "returned"]

\* add_room calls suspended in stop(), each of which will construct a RoomProcessor
PendingAdds == Cardinality({i \in DOMAIN calls : calls[i].op = "add"})

\* ------------------------------------------------------------ records of calls
\* one CameraCapture driven on its own: the consecutive failed reads since the
\* last successful one, the connect() calls _handle_disconnect issued for
\* them, what the last grab_frame did, and the disconnect() calls made in a
\* row since the last other call (2: two or more)
NewCamLog ==
  [fails |-> 0, connects |-> 0, ret |-> "none", on_disconnected |-> FALSE,
   did_read |-> FALSE, did_connect |-> FALSE, had_frame |-> FALSE,
   disconnects |-> 0]

\* one PeopleCounter driven on its own: the raw counts passed to update since
\* construction, the alpha each update ran with, the (count, occupancy) each
\* produced, the argument of the last set_alpha and the internal smoothed
\* value before the last update
NewCtrLog ==
  [raws |-> <<>>, alphas |-> <<>>, outs |-> <<>>, alpha_in |-> 3, prev |-> Unset,
   was_reset |-> FALSE]

\* ------------------------------------------------------------ ConnectionManager
Conns == {"w1", "w2"}
PassIds == 1..MaxPasses

\* a broadcast pass: target is "dashboard" or a room id, snapshot the copy of
\* the set the for loop iterates, cur the subscriber whose send_text is
\* awaited, todo the members of the copy whose send has not completed,
\* attempted those whose send has returned or raised, disconnected those
\* whose send raised
IdlePass ==
  [phase |-> "idle", target |-> "", empty_at_start |-> FALSE, message |-> FALSE,
   snapshot |-> {}, cur |-> "", todo |-> {}, attempted |-> {}, disconnected |-> {}]

\* ------------------------------------------------------------ initial state
TypeOK ==
  /\ created \in 0..MaxPipelines
  /\ rooms \in [Rooms -> 0..MaxPipelines]
  /\ Len(calls) <= MaxCalls
  /\ stopReturned \subseteq 1..created
  /\ sawOpen \subseteq 1..created

Base ==
  /\ settings = [model |-> "yolo11n.pt", confidence_threshold |-> 35,
                 detection_interval |-> 15, smoothing_alpha |-> 3, imgsz |-> 640]
  /\ engine = [model_path |-> "yolo11n.pt", loaded |-> TRUE]
  /\ rooms = [r \in Rooms |-> NoPipe]
  /\ created = 0
  /\ proc = [p \in Pipes |-> RoomProcessor(BlankInput)]
  /\ camera = [p \in Pipes |-> CameraCapture("")]
  /\ counter = [p \in Pipes |-> PeopleCounter]
  /\ cycle = NewCycle
  /\ calls = <<>>
  /\ busy = Idle
  /\ stopReturned = {}
  /\ sawOpen = {}
  /\ add_result = "none"
  /\ shut = [phase |-> "idle", todo |-> <<>>]
  /\ camlog = NewCamLog
  /\ ctrlog = NewCtrLog
  /\ dashboard_connections = {}
  /\ room_connections = [r \in {} |-> {}]
  /\ passes = [i \in PassIds |-> IdlePass]
  /\ accepted = {}

\* no loop is recorded
Init == Base /\ watch = NoPipe

\* the iterations of one loop, any of them, are recorded
InitWatch == Base /\ watch \in 1..MaxLoops

\* ------------------------------------------------------------ DetectionManager
add_room(inp, outcome) ==
  LET r == inp.room_id
      old == rooms[r]
  IN /\ busy = Idle
     /\ created + PendingAdds < MaxPipelines
     /\ IF old = NoPipe
        THEN Install(add_room_tail(Mgr, inp, outcome), calls)
        ELSE IF stop_awaits(Mgr, old)
        THEN /\ Len(calls) < MaxCalls
             /\ Install(stop_begin(Mgr, old),
                        Append(calls, [op |-> "add", inp |-> inp, target |-> old]))
        ELSE Install(add_room_tail(del_room(stop_finish(stop_begin(Mgr, old), old), r),
                                 inp, outcome), calls)
     /\ UNCHANGED <<settings, engine, watch, cycle, busy>>

remove_room(r) ==
  LET old == rooms[r]
  IN /\ busy = Idle
     /\ IF old = NoPipe
        THEN UNCHANGED <<rooms, created, proc, camera, counter, stopReturned,
                         sawOpen, add_result, calls>>
        ELSE IF stop_awaits(Mgr, old)
        THEN /\ Len(calls) < MaxCalls
             /\ Install(stop_begin(Mgr, old),
                        Append(calls, [op |-> "remove",
                                       inp |-> [BlankInput EXCEPT !.room_id = r],
                                       target |-> old]))
        ELSE Install(del_room(stop_finish(stop_begin(Mgr, old), old), r), calls)
     /\ UNCHANGED <<settings, engine, watch, cycle, busy>>

\* the i-th suspended call continues once the task it awaits has finished;
\* calls awaiting the same task continue in the order in which they suspended.
\* "del self._rooms[room_id]" raises KeyError when the room was unregistered
\* meanwhile, which also ends the add_room that called remove_room
resume(i, outcome) ==
  /\ busy = Idle
  /\ i \in DOMAIN calls
  /\ LET c == calls[i]
         r == c.inp.room_id
         m1 == stop_finish(Mgr, c.target)
         rest == [k \in 1..(Len(calls) - 1) |-> IF k < i THEN calls[k] ELSE calls[k + 1]]
     IN /\ proc[c.target].task = "done"
        /\ \A j \in 1..(i - 1) : calls[j].target # c.target
        /\ IF rooms[r] = NoPipe
           THEN Install(IF c.op = "add" THEN [m1 EXCEPT !.add_result = "raised"] ELSE m1,
                        rest)
           ELSE IF c.op = "remove"
           THEN Install(del_room(m1, r), rest)
           ELSE Install(add_room_tail(del_room(m1, r), c.inp, outcome), rest)
  /\ UNCHANGED <<settings, engine, watch, cycle, busy>>

merge_settings(cur, s) ==
  [k \in DOMAIN cur |-> IF k \in DOMAIN s THEN s[k] ELSE cur[k]]

\* an update_settings that does not wait for the event-loop thread, as if run
\* on a thread of its own
update_settings_off_loop(s, ok) ==
  LET reload == "model" \in DOMAIN s /\ s.model # settings.model
      merged == merge_settings(settings, s)
      registered == {rooms[r] : r \in Rooms} \ {NoPipe}
  IN /\ settings' = merged
     /\ engine' = IF reload THEN reload_model(engine, merged.model, ok) ELSE engine
     /\ counter' = IF reload /\ ~ok
                   THEN counter
                   ELSE [p \in Pipes |-> IF p \in registered
                                          THEN set_alpha(counter[p], merged.smoothing_alpha)
                                          ELSE counter[p]]
     /\ UNCHANGED <<rooms, created, proc, camera, watch, cycle, calls, busy,
                    stopReturned, sawOpen, add_result>>

update_settings(s, ok) ==
  LET reload == "model" \in DOMAIN s /\ s.model # settings.model
      merged == merge_settings(settings, s)
      registered == {rooms[r] : r \in Rooms} \ {NoPipe}
  IN /\ busy = Idle
     /\ settings' = merged
     /\ engine' = IF reload THEN reload_model(engine, merged.model, ok) ELSE engine
     /\ counter' = IF reload /\ ~ok
                   THEN counter
                   ELSE [p \in Pipes |-> IF p \in registered
                                          THEN set_alpha(counter[p], merged.smoothing_alpha)
                                          ELSE counter[p]]
     /\ UNCHANGED <<rooms, created, proc, camera, watch, cycle, calls, busy,
                    stopReturned, sawOpen, add_result>>

\* ------------------------------------------------------------ one CameraCapture
\* grab_frame() as one synchronous call on a CameraCapture, with the
\* connect() of _handle_disconnect in it: the object after the call, what the
\* call returned ("frame": the frame just read, "last": the last-known frame,
\* "none": None, "raised": the read raised) and what it did
camera_grab_frame(cam, rd, outcome) ==
  IF ~cam.connected \/ cam.cap = "none"
  THEN [cam |-> cam, ret |-> "none", did_read |-> FALSE, did_connect |-> FALSE]
  ELSE IF rd = "ok"
  THEN [cam |-> [cam EXCEPT !.last_frame = TRUE], ret |-> "frame",
        did_read |-> TRUE, did_connect |-> FALSE]
  ELSE IF rd = "raise"
  THEN [cam |-> cam, ret |-> "raised", did_read |-> TRUE, did_connect |-> FALSE]
  ELSE LET c1 == handle_disconnect(cam)
           retry == c1.attempts <= MaxReconnectAttempts
           c2 == IF retry THEN connect(c1, outcome) ELSE c1
       IN [cam |-> c2, ret |-> IF c2.last_frame THEN "last" ELSE "none",
           did_read |-> TRUE, did_connect |-> retry]

CamFrame == <<settings, engine, rooms, created, proc, counter, watch, cycle, calls,
              busy, stopReturned, sawOpen, add_result, shut, ctrlog, HubVars>>

cam_connect(outcome) ==
  /\ camera' = [camera EXCEPT ![1] = connect(@, outcome)]
  /\ camlog' = [camlog EXCEPT !.disconnects = 0]
  /\ UNCHANGED CamFrame

cam_grab_frame(rd, outcome) ==
  LET cam == camera[1]
      g == camera_grab_frame(cam, rd, outcome)
  IN /\ camlog.fails < MaxReads
     /\ camera' = [camera EXCEPT ![1] = g.cam]
     /\ camlog' = [fails |-> IF g.ret = "frame" THEN 0
                             ELSE IF g.did_read /\ rd = "fail" THEN camlog.fails + 1
                             ELSE camlog.fails,
                   connects |-> IF g.ret = "frame" THEN 0
                                ELSE IF g.did_connect THEN camlog.connects + 1
                                ELSE camlog.connects,
                   ret |-> g.ret,
                   on_disconnected |-> ~cam.connected,
                   did_read |-> g.did_read,
                   did_connect |-> g.did_connect,
                   had_frame |-> cam.last_frame,
                   disconnects |-> 0]
     /\ UNCHANGED CamFrame

cam_disconnect ==
  /\ camera' = [camera EXCEPT ![1] = disconnect(@)]
  /\ camlog' = [camlog EXCEPT !.disconnects = IF @ < 2 THEN @ + 1 ELSE @]
  /\ UNCHANGED CamFrame

\* ------------------------------------------------------------ one PeopleCounter
CtrFrame == <<settings, engine, rooms, created, proc, camera, watch, cycle, calls,
              busy, stopReturned, sawOpen, add_result, shut, camlog, HubVars>>

\* counter.update(raw_count) and the occupancy computed from what it returns,
\* as a cycle of _process_loop does
ctr_update(raw) ==
  LET c == update(counter[1], raw)
      count == smoothed_count(c)
  IN /\ Len(ctrlog.raws) < MaxUpdates
     /\ counter' = [counter EXCEPT ![1] = c]
     /\ ctrlog' = [ctrlog EXCEPT
                     !.raws = Append(@, raw),
                     !.alphas = Append(@, counter[1].alpha),
                     !.outs = Append(@, [count |-> count,
                                         occupancy |-> occupancy(count, CounterCapacity)]),
                     !.prev = counter[1].smoothed]
     /\ UNCHANGED CtrFrame

ctr_set_alpha(x) ==
  /\ counter' = [counter EXCEPT ![1] = set_alpha(@, x)]
  /\ ctrlog' = [ctrlog EXCEPT !.alpha_in = x]
  /\ UNCHANGED CtrFrame

\* reset() after at least one update: the record of the updates starts anew
ctr_reset ==
  /\ ctrlog.raws # <<>>
  /\ counter' = [counter EXCEPT ![1] = reset(@)]
  /\ ctrlog' = [NewCtrLog EXCEPT !.alpha_in = ctrlog.alpha_in, !.was_reset = TRUE]
  /\ UNCHANGED CtrFrame

\* ------------------------------------------------------------ ConnectionManager
\* self._lock is taken only around statements without an await, and taking a
\* free asyncio.Lock does not suspend: every "async with self._lock" block
\* runs in the step that reaches it
HubFrame == <<settings, engine, rooms, created, proc, camera, counter, watch, cycle,
              calls, busy, stopReturned, sawOpen, add_result, shut, LogVars>>

Targets == {"dashboard"} \cup Rooms

\* the handler of a new WebSocket calls connect_dashboard, and
\* websocket.accept() has returned; a WebSocket object has one handler, which
\* connects it once
connect_dashboard(w) ==
  /\ w \notin accepted
  /\ accepted' = accepted \cup {w}
  /\ dashboard_connections' = dashboard_connections \cup {w}
  /\ UNCHANGED <<room_connections, passes>>
  /\ UNCHANGED HubFrame

connect_room(w, r) ==
  /\ w \notin accepted
  /\ accepted' = accepted \cup {w}
  /\ room_connections' =
       [k \in DOMAIN room_connections \cup {r} |->
          IF k = r
          THEN (IF r \in DOMAIN room_connections THEN room_connections[r] ELSE {}) \cup {w}
          ELSE room_connections[k]]
  /\ UNCHANGED <<dashboard_connections, passes>>
  /\ UNCHANGED HubFrame

disconnect_dashboard(w) ==
  /\ dashboard_connections' = dashboard_connections \ {w}
  /\ UNCHANGED <<room_connections, passes, accepted>>
  /\ UNCHANGED HubFrame

\* a disconnect_room without the "if room_id in self._room_connections" test,
\* on a map that makes the missing key
disconnect_room_unguarded(w, r) ==
  /\ room_connections' =
       [k \in DOMAIN room_connections \cup {r} |->
          IF k \in DOMAIN room_connections THEN room_connections[k] \ {w} ELSE {}]
  /\ UNCHANGED <<dashboard_connections, passes, accepted>>
  /\ UNCHANGED HubFrame

disconnect_room(w, r) ==
  /\ room_connections' =
       IF r \in DOMAIN room_connections
       THEN [room_connections EXCEPT ![r] = @ \ {w}]
       ELSE room_connections
  /\ UNCHANGED <<dashboard_connections, passes, accepted>>
  /\ UNCHANGED HubFrame

\* an end of a pass that removes every subscriber it sent to
pass_prune_attempted(i, ps) ==
  /\ passes' = [passes EXCEPT ![i] = [ps EXCEPT !.phase = "returned"]]
  /\ IF ps.target = "dashboard"
     THEN /\ dashboard_connections' = dashboard_connections \ ps.attempted
          /\ UNCHANGED room_connections
     ELSE /\ room_connections' =
               IF ps.target \in DOMAIN room_connections
               THEN [room_connections EXCEPT ![ps.target] = @ \ ps.attempted]
               ELSE room_connections
          /\ UNCHANGED dashboard_connections

\* the end of a pass: the subscribers whose send raised are removed from the
\* set as it is now, and the call returns
pass_prune(i, ps) ==
  /\ passes' = [passes EXCEPT ![i] = [ps EXCEPT !.phase = "returned"]]
  /\ IF ps.target = "dashboard"
     THEN /\ dashboard_connections' = dashboard_connections \ ps.disconnected
          /\ UNCHANGED room_connections
     ELSE /\ room_connections' =
               IF ps.target \in DOMAIN room_connections
               THEN [room_connections EXCEPT ![ps.target] = @ \ ps.disconnected]
               ELSE room_connections
          /\ UNCHANGED dashboard_connections

\* broadcast_dashboard(data) / broadcast_room(room_id, data) is called: the
\* early return, or json.dumps and the copy of the set; with an empty copy
\* the for loop ends at once, otherwise the first send_text is awaited (a set
\* is iterated in an order of its own: any member may come first)
pass_start(i, t) ==
  LET absent == IF t = "dashboard" THEN dashboard_connections = {}
                ELSE t \notin DOMAIN room_connections
      copy == IF t = "dashboard" THEN dashboard_connections ELSE room_connections[t]
  IN /\ passes[i].phase \in {"idle", "returned"}
     /\ IF absent
        THEN /\ passes' = [passes EXCEPT ![i] =
                             [IdlePass EXCEPT !.phase = "returned", !.target = t,
                                              !.empty_at_start = TRUE]]
             /\ UNCHANGED <<dashboard_connections, room_connections>>
        ELSE LET ps == [IdlePass EXCEPT !.phase = "sending", !.target = t,
                                        !.empty_at_start = (copy = {}),
                                        !.message = TRUE, !.snapshot = copy,
                                        !.todo = copy]
             IN IF copy = {}
                THEN pass_prune(i, ps)
                ELSE /\ \E w \in copy : passes' = [passes EXCEPT ![i] = [ps EXCEPT !.cur = w]]
                     /\ UNCHANGED <<dashboard_connections, room_connections>>
     /\ UNCHANGED accepted
     /\ UNCHANGED HubFrame

\* "await conn.send_text(message)" for the subscriber the for loop is at has
\* returned or raised: the loop awaits the send of a next member of the copy,
\* and after the last one the pass ends
pass_send(i, w, res) ==
  LET ps == [passes[i] EXCEPT !.cur = "",
                              !.todo = @ \ {w},
                              !.attempted = @ \cup {w},
                              !.disconnected = IF res = "raise" THEN @ \cup {w} ELSE @]
  IN /\ passes[i].phase = "sending"
     /\ w = passes[i].cur
     /\ IF ps.todo = {}
        THEN pass_prune(i, ps)
        ELSE /\ \E n \in ps.todo : passes' = [passes EXCEPT ![i] = [ps EXCEPT !.cur = n]]
             /\ UNCHANGED <<dashboard_connections, room_connections>>
     /\ UNCHANGED accepted
     /\ UNCHANGED HubFrame

\* ------------------------------------------------------------ shutdown
\* a snapshot that holds the first key only
shutdown_first_key(rm) ==
  LET reg == {r \in Rooms : rm[r] # NoPipe}
  IN IF reg = {} THEN <<>>
     ELSE <<CHOOSE r \in reg : \A q \in reg : rm[r] <= rm[q]>>

\* list(self._rooms.keys()): the registered room ids in insertion order, which
\* is the order in which their pipelines were constructed
shutdown_keys(rm) ==
  LET reg == {r \in Rooms : rm[r] # NoPipe}
  IN CHOOSE q \in [1..Cardinality(reg) -> reg] :
       \A i, j \in 1..Cardinality(reg) : i < j => rm[q[i]] < rm[q[j]]

\* shutdown() is called and takes its snapshot of the keys
shutdown_begin ==
  /\ busy = Idle
  /\ calls = <<>>
  /\ shut.phase = "idle"
  /\ shut' = [phase |-> "running", todo |-> shutdown_keys(rooms)]
  /\ UNCHANGED <<settings, engine, rooms, created, proc, camera, counter, watch,
                 cycle, calls, busy, stopReturned, sawOpen, add_result>>

\* one iteration of the for loop: "await self.remove_room(room_id)", started
\* once the previous one has returned. res = "raise": the stop() of this
\* pipeline raises (the release of its capture fails), nothing catches it and
\* shutdown() ends with the exception; the task was cancelled, the capture is
\* still held and the room still registered
shutdown_next(res) ==
  LET r == Head(shut.todo)
  IN /\ shut.phase = "running"
     /\ calls = <<>>
     /\ shut.todo # <<>>
     /\ IF res = "ok"
        THEN /\ remove_room(r)
             /\ shut' = [shut EXCEPT !.todo = Tail(@)]
        ELSE /\ busy = Idle
             /\ rooms[r] # NoPipe
             /\ Install(stop_begin(Mgr, rooms[r]), calls)
             /\ shut' = [shut EXCEPT !.phase = "raised"]
             /\ UNCHANGED <<settings, engine, watch, cycle, busy>>

\* the for loop is exhausted: shutdown() returns
shutdown_return ==
  /\ busy = Idle
  /\ calls = <<>>
  /\ shut.phase = "running"
  /\ shut.todo = <<>>
  /\ shut' = [shut EXCEPT !.phase = "returned"]
  /\ UNCHANGED <<settings, engine, rooms, created, proc, camera, counter, watch,
                 cycle, calls, busy, stopReturned, sawOpen, add_result>>

\* ------------------------------------------------------------ _process_loop
\* a loop without the try/except: the exception ends the task
except_ends_loop(pr) == [pr EXCEPT !.task = "done"]

\* "except Exception": the iteration is abandoned and the loop goes to its sleep
except_exception(pr) == [pr EXCEPT !.task = "sleep"]

\* a loop that starts its next iteration without the sleep
to_sleep_skipped(pr) == [pr EXCEPT !.task = "new"]

\* the iteration ends without a frame, or after the callback returned
to_sleep(pr) == [pr EXCEPT !.task = "sleep"]

LoopFrame == <<settings, engine, rooms, created, calls, watch, stopReturned, sawOpen, add_result>>

\* the record of the watched pipeline's iteration
Record(p, c) == IF p = watch THEN c ELSE cycle

\* a new iteration starts: "while self._running" and camera.grab_frame(), up
\* to its return or to the time.sleep(2) of _handle_disconnect
grab_frame(p, rd) ==
  LET cam == camera[p]
      cyc == [NewCycle EXCEPT !.prev_raised = (cycle.out = "det_raised")]
      failed == handle_disconnect(cam)
  IN /\ busy = Idle
     /\ p \in 1..created
     /\ proc[p].task \in {"new", "sleep"}
     /\ ~proc[p].cancel
     /\ IF ~proc[p].running
        THEN /\ proc' = [proc EXCEPT ![p].task = "done"]
             /\ UNCHANGED <<camera, cycle, busy>>
        ELSE IF ~cam.connected \/ cam.cap = "none"
        THEN /\ proc' = [proc EXCEPT ![p] = to_sleep(@)]
             /\ cycle' = Record(p, [cyc EXCEPT !.out = "no_frame"])
             /\ UNCHANGED <<camera, busy>>
        ELSE IF rd = "ok"
        THEN /\ camera' = [camera EXCEPT ![p].last_frame = TRUE]
             /\ proc' = [proc EXCEPT ![p].task = "run"]
             /\ cycle' = Record(p, cyc)
             /\ busy' = [p |-> p, phase |-> "detect"]
        ELSE IF rd = "raise"
        THEN /\ proc' = [proc EXCEPT ![p] = except_exception(@)]
             /\ cycle' = Record(p, [cyc EXCEPT !.out = "grab_raised"])
             /\ UNCHANGED <<camera, busy>>
        ELSE /\ camera' = [camera EXCEPT ![p] = failed]
             /\ IF failed.attempts <= MaxReconnectAttempts
                THEN /\ proc' = [proc EXCEPT ![p].task = "run"]
                     /\ cycle' = Record(p, cyc)
                     /\ busy' = [p |-> p, phase |-> "backoff"]
                ELSE IF failed.last_frame
                THEN /\ proc' = [proc EXCEPT ![p].task = "run"]
                     /\ cycle' = Record(p, cyc)
                     /\ busy' = [p |-> p, phase |-> "detect"]
                ELSE /\ proc' = [proc EXCEPT ![p] = to_sleep(@)]
                     /\ cycle' = Record(p, [cyc EXCEPT !.out = "no_frame"])
                     /\ busy' = busy
     /\ UNCHANGED counter
     /\ UNCHANGED LoopFrame

\* _handle_disconnect after its time.sleep(2): one connect(), then grab_frame
\* returns the last frame
reconnect(p, outcome) ==
  /\ busy = [p |-> p, phase |-> "backoff"]
  /\ camera' = [camera EXCEPT ![p] = connect(@, outcome)]
  /\ IF camera[p].last_frame
     THEN /\ busy' = [p |-> p, phase |-> "detect"]
          /\ UNCHANGED <<proc, cycle>>
     ELSE /\ busy' = Idle
          /\ proc' = [proc EXCEPT ![p] = to_sleep(@)]
          /\ cycle' = Record(p, [cycle EXCEPT !.out = "no_frame"])
  /\ UNCHANGED counter
  /\ UNCHANGED LoopFrame

\* a loop that catches the detector's exception by itself and goes on to the
\* callback with a count of 0
detect_calls_back_anyway(p, raw, det, enc) ==
  LET failed == ~engine.loaded \/ det = "raise"
      c == update(counter[p], IF failed THEN 0 ELSE raw)
  IN /\ busy = [p |-> p, phase |-> "detect"]
     /\ busy' = Idle
     /\ counter' = [counter EXCEPT ![p] = c]
     /\ IF enc = "raise"
        THEN /\ proc' = [proc EXCEPT ![p].task = "sleep"]
             /\ cycle' = Record(p, [cycle EXCEPT !.out = "encode_raised"])
        ELSE /\ proc' = [proc EXCEPT ![p].task = "save", ![p].last_frame = TRUE]
             /\ cycle' = Record(p, [cycle EXCEPT !.out = IF failed THEN "det_raised"
                                                                     ELSE "callback",
                                                  !.count = smoothed_count(c),
                                                  !.occupancy = occupancy(smoothed_count(c),
                                                                          proc[p].capacity)])
     /\ UNCHANGED camera
     /\ UNCHANGED LoopFrame

\* a loop that starts on_count_update as a task of its own and goes to its
\* sleep without awaiting it
detect_fire_and_forget(p, raw, det, enc) ==
  LET c == update(counter[p], raw)
  IN /\ busy = [p |-> p, phase |-> "detect"]
     /\ busy' = Idle
     /\ IF ~engine.loaded \/ det = "raise"
        THEN /\ proc' = [proc EXCEPT ![p] = except_exception(@)]
             /\ cycle' = Record(p, [cycle EXCEPT !.out = "det_raised"])
             /\ UNCHANGED counter
        ELSE /\ counter' = [counter EXCEPT ![p] = c]
             /\ IF enc = "raise"
                THEN /\ proc' = [proc EXCEPT ![p] = except_exception(@)]
                     /\ cycle' = Record(p, [cycle EXCEPT !.out = "encode_raised"])
                ELSE /\ proc' = [proc EXCEPT ![p].task = "sleep", ![p].last_frame = TRUE]
                     /\ cycle' = Record(p, [cycle EXCEPT !.out = "callback",
                                                          !.count = smoothed_count(c),
                                                          !.occupancy = occupancy(smoothed_count(c),
                                                                                  proc[p].capacity)])
     /\ UNCHANGED camera
     /\ UNCHANGED LoopFrame

\* engine.detect, counter.update, the occupancy, cv2.imencode and the call of
\* on_count_update up to its first await (the persistence write)
detect(p, raw, det, enc) ==
  LET c == update(counter[p], raw)
  IN /\ busy = [p |-> p, phase |-> "detect"]
     /\ busy' = Idle
     /\ IF ~engine.loaded \/ det = "raise"
        THEN /\ proc' = [proc EXCEPT ![p] = except_exception(@)]
             /\ cycle' = Record(p, [cycle EXCEPT !.out = "det_raised"])
             /\ UNCHANGED counter
        ELSE /\ counter' = [counter EXCEPT ![p] = c]
             /\ IF enc = "raise"
                THEN /\ proc' = [proc EXCEPT ![p] = except_exception(@)]
                     /\ cycle' = Record(p, [cycle EXCEPT !.out = "encode_raised"])
                ELSE /\ proc' = [proc EXCEPT ![p].task = "save", ![p].last_frame = TRUE]
                     /\ cycle' = Record(p, [cycle EXCEPT !.out = "callback",
                                                          !.count = smoothed_count(c),
                                                          !.occupancy = occupancy(smoothed_count(c),
                                                                                  proc[p].capacity)])
     /\ UNCHANGED camera
     /\ UNCHANGED LoopFrame

\* an on_count_update that catches the exception of save_count and goes on
\* to the broadcasts
save_count_ignored(p, res) ==
  /\ busy = Idle
  /\ p \in 1..created
  /\ proc[p].task = "save"
  /\ ~proc[p].cancel
  /\ proc' = [proc EXCEPT ![p].task = "dash"]
  /\ cycle' = Record(p, IF res = "ok" THEN [cycle EXCEPT !.saved = TRUE]
                        ELSE [cycle EXCEPT !.out = "save_raised"])
  /\ UNCHANGED <<camera, counter, busy>>
  /\ UNCHANGED LoopFrame

\* on_count_update: save_count finished (or raised)
save_count(p, res) ==
  /\ busy = Idle
  /\ p \in 1..created
  /\ proc[p].task = "save"
  /\ ~proc[p].cancel
  /\ IF res = "ok"
     THEN /\ proc' = [proc EXCEPT ![p].task = "dash"]
          /\ cycle' = Record(p, [cycle EXCEPT !.saved = TRUE])
     ELSE /\ proc' = [proc EXCEPT ![p] = except_exception(@)]
          /\ cycle' = Record(p, [cycle EXCEPT !.out = "save_raised"])
  /\ UNCHANGED <<camera, counter, busy>>
  /\ UNCHANGED LoopFrame

\* broadcast_count_update: broadcast_dashboard finished (or raised)
broadcast_dashboard(p, res) ==
  /\ busy = Idle
  /\ p \in 1..created
  /\ proc[p].task = "dash"
  /\ ~proc[p].cancel
  /\ IF res = "ok"
     THEN /\ proc' = [proc EXCEPT ![p].task = "room"]
          /\ cycle' = Record(p, [cycle EXCEPT !.dash = TRUE])
     ELSE /\ proc' = [proc EXCEPT ![p] = except_exception(@)]
          /\ cycle' = Record(p, [cycle EXCEPT !.out = "dash_raised"])
  /\ UNCHANGED <<camera, counter, busy>>
  /\ UNCHANGED LoopFrame

\* broadcast_count_update: broadcast_room finished (or raised); the callback returns
broadcast_room(p, res) ==
  /\ busy = Idle
  /\ p \in 1..created
  /\ proc[p].task = "room"
  /\ ~proc[p].cancel
  /\ IF res = "ok"
     THEN /\ proc' = [proc EXCEPT ![p] = to_sleep(@)]
          /\ cycle' = Record(p, [cycle EXCEPT !.room = TRUE, !.out = "ok"])
     ELSE /\ proc' = [proc EXCEPT ![p] = except_exception(@)]
          /\ cycle' = Record(p, [cycle EXCEPT !.out = "room_raised"])
  /\ UNCHANGED <<camera, counter, busy>>
  /\ UNCHANGED LoopFrame

\* task.cancel(): CancelledError is thrown into the task at the await where
\* it is suspended; "except Exception" does not catch it
cancel_task(p) ==
  /\ busy = Idle
  /\ p \in 1..created
  /\ Suspended(proc[p])
  /\ proc[p].cancel
  /\ proc' = [proc EXCEPT ![p].task = "done"]
  /\ UNCHANGED <<camera, counter, cycle, busy>>
  /\ UNCHANGED LoopFrame

\* ------------------------------------------------------------ specification
AddRoomAct == (\E inp \in AddInputs, o \in ConnectOutcomes : add_room(inp, o)) /\ UNCHANGED <<shut, LogVars, HubVars>>
RemoveRoomAct == (\E r \in Rooms : remove_room(r)) /\ UNCHANGED <<shut, LogVars, HubVars>>
ResumeAct == (\E i \in 1..MaxCalls, o \in ConnectOutcomes : resume(i, o)) /\ UNCHANGED <<shut, LogVars, HubVars>>
UpdateSettingsAct == (\E s \in SettingsInputs, ok \in BOOLEAN : update_settings(s, ok)) /\ UNCHANGED <<shut, LogVars, HubVars>>
GrabAct == (\E p \in Pipes, rd \in ReadOutcomes : grab_frame(p, rd)) /\ UNCHANGED <<shut, LogVars, HubVars>>
ReconnectAct == (\E p \in Pipes, o \in ConnectOutcomes : reconnect(p, o)) /\ UNCHANGED <<shut, LogVars, HubVars>>
DetectAct ==
  /\ \E p \in Pipes, raw \in RawCounts, det \in CallOutcomes, enc \in CallOutcomes :
       detect(p, raw, det, enc)
  /\ UNCHANGED <<shut, LogVars, HubVars>>
SaveDoneAct == (\E p \in Pipes, res \in CallOutcomes : save_count(p, res)) /\ UNCHANGED <<shut, LogVars, HubVars>>
DashDoneAct == (\E p \in Pipes, res \in CallOutcomes : broadcast_dashboard(p, res)) /\ UNCHANGED <<shut, LogVars, HubVars>>
RoomDoneAct == (\E p \in Pipes, res \in CallOutcomes : broadcast_room(p, res)) /\ UNCHANGED <<shut, LogVars, HubVars>>
CancelledAct == (\E p \in Pipes : cancel_task(p)) /\ UNCHANGED <<shut, LogVars, HubVars>>

\* the iterations of a loop in which nothing fails
GrabOk == (\E p \in Pipes : grab_frame(p, "ok")) /\ UNCHANGED <<shut, LogVars, HubVars>>
DetectOk == (\E p \in Pipes, raw \in RawCounts : detect(p, raw, "ok", "ok")) /\ UNCHANGED <<shut, LogVars, HubVars>>
SaveOk == (\E p \in Pipes : save_count(p, "ok")) /\ UNCHANGED <<shut, LogVars, HubVars>>
DashOk == (\E p \in Pipes : broadcast_dashboard(p, "ok")) /\ UNCHANGED <<shut, LogVars, HubVars>>
RoomOk == (\E p \in Pipes : broadcast_room(p, "ok")) /\ UNCHANGED <<shut, LogVars, HubVars>>

\* manager calls made one after the other: none starts while one is suspended
AddRoomSeq == calls = <<>> /\ AddRoomAct
RemoveRoomSeq == calls = <<>> /\ RemoveRoomAct
UpdateSettingsSeq == calls = <<>> /\ UpdateSettingsAct
AddRoomFew == created < MaxLoops /\ AddRoomSeq

\* everything: overlapping manager calls, settings updates, failing cameras,
\* detector and callbacks
Next ==
  \/ AddRoomAct
  \/ RemoveRoomAct
  \/ ResumeAct
  \/ UpdateSettingsAct
  \/ GrabAct
  \/ ReconnectAct
  \/ DetectAct
  \/ SaveDoneAct
  \/ DashDoneAct
  \/ RoomDoneAct
  \/ CancelledAct

InitAny == Base /\ watch \in Pipes \cup {NoPipe}

Spec == InitAny /\ [][Next]_vars

\* overlapping add_room/remove_room calls over loops in which nothing fails
NextRace ==
  \/ AddRoomAct
  \/ RemoveRoomAct
  \/ ResumeAct
  \/ CancelledAct
  \/ GrabOk
  \/ DetectOk
  \/ SaveOk
  \/ DashOk
  \/ RoomOk

SpecRace == Init /\ [][NextRace]_vars

\* the same with the manager calls made one after the other
NextSeq ==
  \/ AddRoomSeq
  \/ RemoveRoomSeq
  \/ ResumeAct
  \/ CancelledAct
  \/ GrabOk
  \/ DetectOk
  \/ SaveOk
  \/ DashOk
  \/ RoomOk

SpecSeq == Init /\ [][NextSeq]_vars

\* the same under the scheduling of the event loop: a call into the detector
\* returns, and a task that is ready to run (a cancelled loop task, a stop()
\* whose awaited task has finished) is run, the ready queue being served in
\* order
SpecStop ==
  /\ Init
  /\ [][NextSeq]_vars
  /\ WF_vars(DetectOk)
  /\ SF_vars(CancelledAct)
  /\ SF_vars(ResumeAct)

\* cameras, detector and callbacks that fail, under manager calls made one
\* after the other
NextFaults ==
  \/ AddRoomFew
  \/ RemoveRoomSeq
  \/ ResumeAct
  \/ CancelledAct
  \/ GrabAct
  \/ ReconnectAct
  \/ DetectAct
  \/ SaveDoneAct
  \/ DashDoneAct
  \/ RoomDoneAct

SpecFaults == InitWatch /\ [][NextFaults]_vars

\* settings updates over loops in which nothing fails
NextSettings ==
  \/ AddRoomFew
  \/ RemoveRoomSeq
  \/ ResumeAct
  \/ CancelledAct
  \/ UpdateSettingsSeq
  \/ GrabOk
  \/ DetectOk
  \/ SaveOk
  \/ DashOk
  \/ RoomOk

SpecSettings == Init /\ [][NextSettings]_vars

\* shutdown() after manager calls made one after the other; no manager call
\* is made once it has started
AddRoomBefore == shut.phase = "idle" /\ AddRoomSeq
RemoveRoomBefore == shut.phase = "idle" /\ RemoveRoomSeq
ShutdownBegin == shutdown_begin /\ UNCHANGED <<LogVars, HubVars>>
ShutdownNext == (\E res \in CallOutcomes : shutdown_next(res)) /\ UNCHANGED <<LogVars, HubVars>>
ShutdownReturn == shutdown_return /\ UNCHANGED <<LogVars, HubVars>>

NextShutdown ==
  \/ AddRoomBefore
  \/ RemoveRoomBefore
  \/ ResumeAct
  \/ CancelledAct
  \/ GrabOk
  \/ DetectOk
  \/ SaveOk
  \/ DashOk
  \/ RoomOk
  \/ ShutdownBegin
  \/ ShutdownNext
  \/ ShutdownReturn

SpecShutdown == Init /\ [][NextShutdown]_vars

\* one CameraCapture under any sequence of connect, grab_frame and disconnect
CamConnect == \E o \in ConnectOutcomes : cam_connect(o)
CamGrabFrame == \E rd \in ReadOutcomes, o \in ConnectOutcomes : cam_grab_frame(rd, o)
CamDisconnect == cam_disconnect

NextCamera ==
  \/ CamConnect
  \/ CamGrabFrame
  \/ CamDisconnect

SpecCamera == Init /\ [][NextCamera]_vars

\* one PeopleCounter under any sequence of update and set_alpha
CtrUpdate == \E raw \in CounterRaws : ctr_update(raw)
CtrSetAlpha == \E x \in AlphaInputs : ctr_set_alpha(x)
CtrReset == ctr_reset

NextCounter ==
  \/ CtrUpdate
  \/ CtrSetAlpha
  \/ CtrReset

SpecCounter == Init /\ [][NextCounter]_vars

\* the ConnectionManager under subscribers that come and go and broadcast
\* passes that overlap
HubConnectDashboard == \E w \in Conns : connect_dashboard(w)
HubConnectRoom == \E w \in Conns, r \in Rooms : connect_room(w, r)
HubDisconnectDashboard == \E w \in Conns : disconnect_dashboard(w)
HubDisconnectRoom == \E w \in Conns, r \in Rooms : disconnect_room(w, r)
PassStart == \E i \in PassIds, t \in Targets : pass_start(i, t)
PassSend == \E i \in PassIds, w \in Conns, res \in CallOutcomes : pass_send(i, w, res)

NextHub ==
  \/ HubConnectDashboard
  \/ HubConnectRoom
  \/ HubDisconnectDashboard
  \/ HubDisconnectRoom
  \/ PassStart
  \/ PassSend

SpecHub == Init /\ [][NextHub]_vars

\* the ConnectionManager with one subscriber whose peer stopped reading: a
\* send_text to it neither returns nor raises, while a send to any other
\* subscriber completes
Hung == {"w2"}
PassSendResponsive ==
  \E i \in PassIds, w \in Conns \ Hung, res \in CallOutcomes : pass_send(i, w, res)

NextHubLive ==
  \/ HubConnectDashboard
  \/ HubConnectRoom
  \/ HubDisconnectDashboard
  \/ HubDisconnectRoom
  \/ PassStart
  \/ PassSendResponsive

SpecHubLive == Init /\ [][NextHubLive]_vars /\ WF_vars(PassSendResponsive)

\* ------------------------------------------------------------ properties
Registered == {rooms[r] : r \in Rooms} \ {NoPipe}

SameRoom(p, q) == proc[p].room_id = proc[q].room_id

\* C1: at most one pipeline per room id has a live loop or an open camera, and
\* it is the pipeline registered in the room map, under any interleaving of
\* add_room and remove_room calls
OnePipelinePerRoom ==
  \A p \in 1..created : Live(Mgr, p) => rooms[proc[p].room_id] = p

\* C2: with add_room calls made one after the other, the prior pipeline of the
\* room has a finished loop and a released camera when the new pipeline's
\* connect is issued, and afterwards only the new pipeline is registered
ReplaceStopsFirst ==
  /\ sawOpen = {}
  /\ \A p, q \in 1..created :
       (p < q /\ SameRoom(p, q)) => (rooms[proc[p].room_id] # p /\ ~Live(Mgr, p))

ReplaceStopsFirstWitness ==
  \E p, q \in 1..created :
    /\ p < q
    /\ SameRoom(p, q)
    /\ p \in stopReturned
    /\ proc[p].task = "done"
    /\ camera[q].connected
    /\ TaskAlive(proc[q])
    /\ rooms[proc[q].room_id] = q

\* C3 as stated: the camera is connected if and only if the loop is alive
CameraIffLoop ==
  \A p \in 1..created : camera[p].connected <=> TaskAlive(proc[p])

\* C3 as amended: a connected camera belongs to a loop task that is alive, or
\* that a suspended stop() has cancelled and is about to disconnect; a live
\* loop holds a capture object, which may be disconnected
CameraLoopCoupling ==
  \A p \in 1..created :
    /\ camera[p].connected =>
         /\ proc[p].task # "none"
         /\ proc[p].task = "done" => \E i \in DOMAIN calls : calls[i].target = p
    /\ TaskAlive(proc[p]) => camera[p].cap # "none"

CameraLoopCouplingWitness ==
  \E p \in 1..created :
    /\ TaskAlive(proc[p])
    /\ proc[p].task = "sleep"
    /\ ~camera[p].connected
    /\ camera[p].attempts = 1

\* C4: once a stop() has returned, the loop task has terminated, the capture
\* handle is released and the connected flag is false; so a pipeline created
\* afterwards never holds the camera open together with the stopped one
StopReleases ==
  \A p \in stopReturned :
    /\ ~TaskAlive(proc[p])
    /\ camera[p].cap = "none"
    /\ ~camera[p].connected

StopReleasesWitness ==
  \E p \in stopReturned, q \in 1..created :
    /\ p < q
    /\ SameRoom(p, q)
    /\ proc[p].task = "done"
    /\ camera[q].cap = "open"

RaisedOuts ==
  {"grab_raised", "det_raised", "encode_raised", "save_raised", "dash_raised",
   "room_raised"}

\* C5: an exception in a cycle never ends the loop, which goes on to its sleep
\* and can start the next cycle; only a stop request ends the loop
LoopSurvivesExceptions ==
  \A p \in 1..created :
    /\ proc[p].task = "done" => proc[p].cancel
    /\ (p = watch /\ cycle.out \in RaisedOuts /\ ~proc[p].cancel) =>
         /\ proc[p].task = "sleep"
         /\ busy = Idle => ENABLED grab_frame(p, "ok")

LoopSurvivesExceptionsWitness ==
  /\ watch \in 1..created
  /\ cycle.out = "save_raised"
  /\ proc[watch].task = "sleep"
  /\ ~proc[watch].cancel

\* C6: a cycle in which the detector raised persists and broadcasts nothing and
\* ends in the sleep; in the cycle after it, a successful detection enters the
\* callback, which persists, then broadcasts to the dashboard, then to the room
DetectorFailureSkipsCycle ==
  /\ cycle.out = "det_raised" =>
       /\ ~cycle.saved /\ ~cycle.dash /\ ~cycle.room
       /\ proc[watch].task \in {"sleep", "done"}
       /\ proc[watch].task = "done" => proc[watch].cancel
  /\ (cycle.prev_raised /\ cycle.out = "callback") =>
       /\ proc[watch].task \in {"save", "dash", "room", "done"}
       /\ proc[watch].task = "dash" => cycle.saved
       /\ proc[watch].task = "room" => cycle.saved /\ cycle.dash
  /\ (cycle.prev_raised /\ cycle.out = "ok") =>
       cycle.saved /\ cycle.dash /\ cycle.room

DetectorFailureSkipsCycleWitness ==
  /\ watch \in 1..created
  /\ cycle.prev_raised
  /\ cycle.out = "ok"
  /\ cycle.saved /\ cycle.dash /\ cycle.room
  /\ proc[watch].task = "sleep"

\* C7: while a failure of one room is being handled, the loop of another room
\* that is due to start a cycle can start it
OtherRoomsProgress ==
  \A p, q \in 1..created :
    ( /\ busy = [p |-> p, phase |-> "backoff"]
      /\ ~SameRoom(p, q)
      /\ proc[q].task \in {"new", "sleep"}
      /\ ~proc[q].cancel )
    => ENABLED grab_frame(q, "ok")

\* C8: update_settings with a smoothing_alpha value sets alpha on every
\* registered pipeline and leaves its camera, run flag and loop task unchanged
AlphaHotUpdate ==
  [][\A s \in SettingsInputs, ok \in BOOLEAN :
       ("smoothing_alpha" \in DOMAIN s /\ update_settings(s, ok)) =>
          /\ \A p \in Registered : counter'[p].alpha = Clamp(s.smoothing_alpha)
          /\ camera' = camera
          /\ proc' = proc]_vars

\* C9: a running loop calls the detector with the current confidence threshold
\* and input size and sleeps the current detection interval
RunningLoopsUseCurrentSettings ==
  \A p \in 1..created :
    busy = [p |-> p, phase |-> "detect"] =>
      /\ proc[p].confidence = settings.confidence_threshold
      /\ proc[p].imgsz = settings.imgsz
      /\ proc[p].interval = settings.detection_interval

\* C10: every update_settings call leaves every registered pipeline with the
\* manager's current smoothing alpha, also when it reloads the model
AlphaAlwaysPropagated ==
  [][UpdateSettingsAct =>
       \A p \in Registered : counter'[p].alpha = Clamp(settings'.smoothing_alpha)]_vars

\* C11: no two calls into the shared Detector are in progress at one time: a
\* model reload is never made while a pipeline is inside detect, and a pipeline
\* enters detect only when no pipeline is inside it
DetectorCallsSerialized ==
  [][/\ engine' # engine => (busy.phase # "detect" /\ busy'.phase # "detect")
     /\ (busy'.phase = "detect" /\ busy' # busy) => busy.phase # "detect"]_vars

DetectorCallsSerializedWitness ==
  /\ engine.model_path = "yolo26m.pt"
  /\ busy.phase = "detect"
  /\ \E p \in 1..created : p # busy.p /\ proc[p].task \in {"new", "sleep"} /\ ~proc[p].cancel

\* C12: when shutdown() has returned, no pipeline is registered, none has a
\* live loop and no camera is connected or holds a capture handle
ShutdownStopsAll ==
  shut.phase = "returned" =>
    /\ \A r \in Rooms : rooms[r] = NoPipe
    /\ \A p \in 1..created :
         /\ ~TaskAlive(proc[p])
         /\ camera[p].cap = "none"
         /\ ~camera[p].connected

ShutdownStopsAllWitness ==
  /\ shut.phase = "returned"
  /\ \E p, q \in stopReturned :
       /\ ~SameRoom(p, q)
       /\ proc[p].task = "done"
       /\ proc[q].task = "done"

\* C13: when shutdown() has ended with the exception of one pipeline's stop(),
\* the pipelines of the room ids after it in the snapshot are stopped and
\* their cameras released all the same
ShutdownSurvivesFailure ==
  shut.phase = "raised" =>
    \A i \in 2..Len(shut.todo) :
      \A p \in 1..created :
        proc[p].room_id = shut.todo[i] =>
          /\ ~TaskAlive(proc[p])
          /\ camera[p].cap = "none"

\* C14: a grab_frame on a disconnected CameraCapture reads nothing, connects
\* nothing and returns the last-known-good frame, which is absent only if no
\* frame was ever read
DisconnectedGrabServesLastFrame ==
  camlog.on_disconnected =>
    /\ ~camlog.did_read
    /\ ~camlog.did_connect
    /\ camlog.ret = IF camlog.had_frame THEN "last" ELSE "none"

\* C15: of consecutive failed reads the first 5 issue one connect() each and
\* the later ones none
ReconnectsExhaustAfterFive ==
  camlog.connects = IF camlog.fails <= MaxReconnectAttempts
                    THEN camlog.fails ELSE MaxReconnectAttempts

\* C16: the reconnect-attempt counter stays between 0 and the maximum of 5
AttemptsBounded ==
  \A p \in Pipes : camera[p].attempts \in 0..MaxReconnectAttempts

AttemptsBoundedWitness ==
  /\ camera[1].attempts = 1
  /\ ~camera[1].connected
  /\ camlog.fails > MaxReconnectAttempts

\* C17: the first update sets the internal smoothed value to the raw count
\* exactly; each later one sets it to alpha * raw + (1 - alpha) * previous
\* value; the count returned is the internal value rounded to the nearest
\* integer (a tie to the even one)
EmaRecurrence ==
  LET n == Len(ctrlog.raws)
      c == counter[1]
      x == ctrlog.raws[n]
      a == ctrlog.alphas[n]
      ret == ctrlog.outs[n].count
      d == SmoothScale * ret - c.smoothed
  IN n >= 1 =>
       /\ n = 1 => (ctrlog.prev = Unset /\ c.smoothed = x * SmoothScale)
       /\ n > 1 => (/\ ctrlog.prev # Unset
                     /\ 10 * c.smoothed = a * x * SmoothScale + (10 - a) * ctrlog.prev)
       /\ 2 * d <= SmoothScale
       /\ -2 * d <= SmoothScale
       /\ (2 * d = SmoothScale \/ -2 * d = SmoothScale) => ret % 2 = 0

EmaRecurrenceWitness ==
  /\ Len(ctrlog.raws) = 3
  /\ ctrlog.alphas = <<5, 5, 5>>
  /\ ctrlog.raws = <<0, 10, 10>>
  /\ ctrlog.outs[3].count = 8

\* C18: set_alpha(x) stores 0 for x below 0, 1 for x above 1 and x itself
\* otherwise, so the stored alpha is always in [0,1]
AlphaClamped ==
  LET x == ctrlog.alpha_in
      a == counter[1].alpha
  IN /\ x < 0 => a = 0
     /\ x > 10 => a = 10
     /\ (x >= 0 /\ x <= 10) => a = x
     /\ a >= 0 /\ a <= 10

AlphaClampedWitness ==
  /\ ctrlog.alpha_in > 10
  /\ counter[1].alpha = 10
  /\ Len(ctrlog.raws) > 0

\* C19: capacity 100, alpha 0.3 and raw counts 10, 10, 20 give the counts
\* 10, 10, 13 and the occupancy percentages 10.0, 10.0, 13.0
LobbyScenario ==
  (ctrlog.raws = <<10, 10, 20>> /\ ctrlog.alphas = <<3, 3, 3>>) =>
    ctrlog.outs = << [count |-> 10, occupancy |-> 10 * SmoothScale],
                     [count |-> 10, occupancy |-> 10 * SmoothScale],
                     [count |-> 13, occupancy |-> 13 * SmoothScale] >>

LobbyScenarioWitness ==
  /\ ctrlog.raws = <<10, 10, 20>>
  /\ ctrlog.alphas = <<3, 3, 3>>
  /\ ctrlog.outs[3].count = 13
  /\ counter[1].smoothed = 13 * SmoothScale

\* the subscriber set a broadcast is aimed at has no members
TargetEmpty(t) ==
  IF t = "dashboard" THEN dashboard_connections = {}
  ELSE t \notin DOMAIN room_connections \/ room_connections[t] = {}

\* C20: a broadcast on a subscriber set without members returns at once: no
\* message is serialized, no delivery attempted, no subscriber set changed
EmptyBroadcastIsNoOp ==
  [][\A i \in PassIds, t \in Targets :
       (TargetEmpty(t) /\ pass_start(i, t)) =>
         /\ passes'[i].phase = "returned"
         /\ ~passes'[i].message
         /\ passes'[i].attempted = {}
         /\ UNCHANGED <<dashboard_connections, room_connections>>]_vars

\* the members of the subscriber set a broadcast is aimed at
Members(t) ==
  IF t = "dashboard" THEN dashboard_connections
  ELSE IF t \in DOMAIN room_connections THEN room_connections[t] ELSE {}

\* C21: a subscriber whose delivery failed in a broadcast pass is not in the
\* snapshot a later pass on the same set takes, also when the passes overlap
FailedSubscriberAbsentNextPass ==
  [][\A i \in PassIds, t \in Targets :
       pass_start(i, t) =>
         \A j \in PassIds :
           passes[j].target = t => passes'[i].snapshot \cap passes[j].disconnected = {}]_vars

\* C22: within a pass, a subscriber whose send never completes does not keep
\* the other subscribers of the snapshot from being sent the message
HungSubscriberBlocksNoOne ==
  \A i \in PassIds : \A w \in Conns \ Hung :
    (passes[i].phase = "sending" /\ w \in passes[i].todo)
      ~> (passes[i].cur = w \/ w \in passes[i].attempted)

\* C25: connect_dashboard and connect_room(id) add the subscriber to the
\* targeted set and to no other; disconnect_dashboard and disconnect_room(id)
\* remove it, and for a subscriber that is absent, or a room id without a
\* set, they change no subscriber set
ConnectDisconnectMembership ==
  [][\A w \in Conns :
       /\ connect_dashboard(w) =>
            /\ dashboard_connections' = dashboard_connections \cup {w}
            /\ UNCHANGED room_connections
       /\ disconnect_dashboard(w) =>
            /\ dashboard_connections' = dashboard_connections \ {w}
            /\ UNCHANGED room_connections
            /\ w \notin dashboard_connections => UNCHANGED dashboard_connections
       /\ \A r \in Rooms :
            /\ connect_room(w, r) =>
                 /\ Members(r)' = Members(r) \cup {w}
                 /\ \A k \in Rooms \ {r} :
                      /\ Members(k)' = Members(k)
                      /\ k \in DOMAIN room_connections' <=> k \in DOMAIN room_connections
                 /\ UNCHANGED dashboard_connections
            /\ disconnect_room(w, r) =>
                 /\ Members(r)' = Members(r) \ {w}
                 /\ \A k \in Rooms \ {r} : Members(k)' = Members(k)
                 /\ UNCHANGED dashboard_connections
                 /\ w \notin Members(r) => UNCHANGED room_connections]_vars

ConnectDisconnectMembershipWitness ==
  /\ accepted = Conns
  /\ dashboard_connections = {}
  /\ \E r \in Rooms : r \notin DOMAIN room_connections
  /\ \E r \in DOMAIN room_connections : room_connections[r] = {}

\* C29: a pass sends once to every member of its snapshot, whatever the
\* earlier sends did and whoever connected or disconnected meanwhile; it
\* changes the set only when its last send has completed, and then removes
\* the subscribers whose send failed and no one else
PassDeliversToSnapshotOnce ==
  [][\A i \in PassIds :
       /\ \A t \in Targets :
            (pass_start(i, t) /\ Members(t) = {}) =>
              UNCHANGED <<dashboard_connections, room_connections>>
       /\ \A w \in Conns, res \in CallOutcomes :
            pass_send(i, w, res) =>
              LET t == passes[i].target
              IN /\ w \in passes[i].snapshot
                 /\ w \notin passes[i].attempted
                 /\ \A k \in Targets \ {t} : Members(k)' = Members(k)
                 /\ IF passes[i].todo = {w}
                    THEN /\ passes'[i].phase = "returned"
                         /\ passes'[i].attempted = passes[i].snapshot
                         /\ Members(t)' = Members(t) \ passes'[i].disconnected
                         /\ passes'[i].disconnected \subseteq passes[i].snapshot
                         /\ res = "ok" => w \notin passes'[i].disconnected
                    ELSE /\ passes'[i].phase = "sending"
                         /\ Members(t)' = Members(t)]_vars

PassDeliversToSnapshotOnceWitness ==
  \E i \in PassIds :
    /\ passes[i].phase = "returned"
    /\ passes[i].target = "dashboard"
    /\ passes[i].snapshot = Conns
    /\ passes[i].attempted = Conns
    /\ passes[i].disconnected = {"w1"}
    /\ dashboard_connections = {"w2"}

\* C23: the global settings hold a confidence threshold and a smoothing
\* factor in [0,1] and a detection interval of at least 1 in every reachable
\* state: an update with a value outside these ranges is not merged
SettingsValid ==
  /\ settings.confidence_threshold \in 0..100
  /\ settings.smoothing_alpha \in 0..10
  /\ settings.detection_interval >= 1

\* an add_room call with an active room that runs to its end in this step and
\* whose camera does not connect
AddRoomConnectFails(inp, o) ==
  /\ add_room(inp, o)
  /\ calls' = calls
  /\ inp.is_active
  /\ o # "opened"

\* C24: an add_room whose new active pipeline cannot connect its camera ends
\* with an error for its caller, and leaves the pipelines of the other rooms
\* as they were
AddRoomReportsConnectFailure ==
  [][\A inp \in AddInputs, o \in ConnectOutcomes :
       AddRoomConnectFails(inp, o) =>
         /\ add_result' = "raised"
         /\ \A r \in Rooms \ {inp.room_id} :
              /\ rooms'[r] = rooms[r]
              /\ rooms[r] # NoPipe =>
                   /\ proc'[rooms[r]] = proc[rooms[r]]
                   /\ camera'[rooms[r]] = camera[rooms[r]]
                   /\ counter'[rooms[r]] = counter[rooms[r]]]_vars

\* C30: when the connect in start() fails the pipeline stays stopped (run
\* flag false, no task, camera not connected), start() returns to add_room
\* without an exception, and a later start() on the pipeline goes ahead
StartAbortsOnConnectFailure ==
  [][\A inp \in AddInputs, o \in ConnectOutcomes :
       AddRoomConnectFails(inp, o) =>
         LET p == created'
         IN /\ rooms'[inp.room_id] = p
            /\ ~proc'[p].running
            /\ proc'[p].task = "none"
            /\ ~camera'[p].connected
            /\ add_result' = "returned"
            /\ LET again == start(Mgr', p, settings.detection_interval,
                                  settings.confidence_threshold, settings.imgsz,
                                  settings.smoothing_alpha, "opened")
               IN again.proc[p].running /\ again.proc[p].task = "new"]_vars

StartAbortsOnConnectFailureWitness ==
  \E p \in 1..created :
    /\ rooms[proc[p].room_id] = p
    /\ camera[p].cap = "closed"
    /\ ~camera[p].connected
    /\ ~proc[p].running
    /\ proc[p].task = "none"
    /\ add_result = "returned"
    /\ \E q \in 1..created : q # p /\ proc[q].running

\* C26: a failed read on a connected CameraCapture marks it disconnected,
\* adds one to the attempt counter, issues one connect() when the counter is
\* at most 5 and returns the last-known frame; a connect() that succeeds
\* sets the counter to zero (and the flag again), one that fails leaves the
\* counter as it is
FailedReadReconnectsOnce ==
  [][/\ \A rd \in ReadOutcomes, o \in ConnectOutcomes :
          (/\ cam_grab_frame(rd, o)
           /\ camera[1].connected
           /\ camera[1].cap # "none"
           /\ rd = "fail") =>
            LET n == camera[1].attempts + 1
            IN /\ camlog'.did_read
               /\ camlog'.did_connect = (n <= MaxReconnectAttempts)
               /\ camlog'.ret = IF camera[1].last_frame THEN "last" ELSE "none"
               /\ camera'[1].last_frame = camera[1].last_frame
               /\ IF n <= MaxReconnectAttempts /\ o = "opened"
                  THEN camera'[1].connected /\ camera'[1].attempts = 0
                  ELSE ~camera'[1].connected /\ camera'[1].attempts = n
     /\ \A o \in ConnectOutcomes :
          cam_connect(o) =>
            camera'[1].attempts = IF o = "opened" THEN 0 ELSE camera[1].attempts]_vars

FailedReadReconnectsOnceWitness ==
  /\ camlog.fails >= 1
  /\ camlog.did_read
  /\ camlog.did_connect
  /\ camlog.ret = "last"
  /\ ~camera[1].connected
  /\ camera[1].cap = "closed"
  /\ camera[1].attempts = 1

\* C27: a connect() that fails leaves the connected flag false, whatever the
\* state of the CameraCapture it is called on
FailedConnectLeavesDisconnected ==
  [][\A o \in ConnectOutcomes \ {"opened"} :
       cam_connect(o) => ~camera'[1].connected]_vars

\* C28: after disconnect() the capture handle is cleared and the connected
\* flag false, and a disconnect() on a CameraCapture in that state (after an
\* earlier disconnect, or never connected) changes nothing
DisconnectIdempotent ==
  [][cam_disconnect =>
       /\ camera'[1] = [camera[1] EXCEPT !.cap = "none", !.connected = FALSE]
       /\ (camera[1].cap = "none" /\ ~camera[1].connected) => camera' = camera]_vars

DisconnectIdempotentWitness ==
  /\ camlog.disconnects = 2
  /\ camlog.fails >= 1
  /\ camera[1].last_frame
  /\ camera[1].cap = "none"
  /\ ~camera[1].connected

\* C31: a cycle in which grab_frame returns no frame calls neither the
\* detector nor the counter nor the callback (nothing is persisted or
\* broadcast, the counter and the cached frame stay as they are) and ends in
\* the sleep of the interval
NoFrameCycleIsIdle ==
  [][\A p \in Pipes :
       (/\ p = watch
        /\ \/ \E rd \in ReadOutcomes : grab_frame(p, rd)
           \/ \E o \in ConnectOutcomes : reconnect(p, o)
        /\ proc'[p].task # "done"
        /\ cycle'.out = "no_frame") =>
         /\ counter'[p] = counter[p]
         /\ proc'[p].last_frame = proc[p].last_frame
         /\ ~cycle'.saved /\ ~cycle'.dash /\ ~cycle'.room
         /\ proc'[p].task = "sleep"
         /\ busy' = Idle]_vars

NoFrameCycleIsIdleWitness ==
  /\ watch \in 1..created
  /\ rooms[proc[watch].room_id] = watch
  /\ cycle.out = "no_frame"
  /\ proc[watch].running
  /\ proc[watch].task = "sleep"
  /\ ~camera[watch].connected
  /\ camera[watch].attempts = 1

\* C32: a stop request made while the loop sleeps between cycles ends the
\* sleep: no sleep of a stopped pipeline runs to its end (so no further cycle
\* starts), the loop task terminates and the stop() returns
StopInterruptsSleep ==
  /\ [][\A p \in Pipes : \A rd \in ReadOutcomes : grab_frame(p, rd) => proc[p].running]_vars
  /\ \A p \in Pipes :
       (p \in 1..created /\ proc[p].task = "sleep" /\ ~proc[p].running)
         ~> (proc[p].task = "done" /\ p \in stopReturned)

StopInterruptsSleepWitness ==
  \E p \in 1..created :
    /\ proc[p].task = "sleep"
    /\ ~proc[p].running
    /\ proc[p].cancel
    /\ \E i \in DOMAIN calls : calls[i].target = p

\* C33: a stop request made while a cycle is in its callback lets the
\* callback finish: the loop task is not ended between the start of the
\* persistence write and the return of the room broadcast
StopLetsCycleFinish ==
  [][\A p \in Pipes :
       cancel_task(p) => proc[p].task \notin {"save", "dash", "room"}]_vars

\* C34: the occupancy a cycle passes to the callback is smoothed count /
\* capacity x 100 for a capacity above 0 and 0 for a capacity of 0 or below;
\* with a capacity of 0 the cycle reaches its callback as with any other
OccupancyPassedToCallback ==
  [][\A p \in Pipes : \A raw \in RawCounts, det \in CallOutcomes, enc \in CallOutcomes :
       (p = watch /\ detect(p, raw, det, enc)) =>
         LET cap == proc[p].capacity
         IN /\ (engine.loaded /\ det = "ok" /\ enc = "ok") => cycle'.out = "callback"
            /\ cycle'.out = "callback" =>
                 /\ cycle'.count = smoothed_count(counter'[p])
                 /\ cap > 0 => cycle'.occupancy * cap = cycle'.count * 100 * SmoothScale
                 /\ cap <= 0 => cycle'.occupancy = 0
                 /\ \A c \in {-1, 0} : occupancy(cycle'.count, c) = 0]_vars

OccupancyPassedToCallbackWitness ==
  /\ watch \in 1..created
  /\ proc[watch].capacity = 0
  /\ proc[watch].task = "sleep"
  /\ cycle.out = "ok"
  /\ cycle.count = 4
  /\ cycle.occupancy = 0
  /\ \E q \in 1..created : proc[q].capacity = 100 /\ proc[q].task = "dash"

\* C35: once a stop() (of add_room, remove_room or shutdown) has returned
\* for a pipeline, its loop task is finished and stays so: the pipeline takes
\* no further step into the detector, the persistence write or a broadcast
StoppedPipelineIsSilent ==
  [][\A p \in stopReturned' :
       /\ proc'[p].task \in {"none", "done"}
       /\ busy'.p # p
       /\ p \in stopReturned =>
            /\ proc'[p].task = proc[p].task
            /\ \A rd \in ReadOutcomes : ~grab_frame(p, rd)
            /\ \A raw \in RawCounts, det \in CallOutcomes, enc \in CallOutcomes :
                 ~detect(p, raw, det, enc)
            /\ \A res \in CallOutcomes :
                 ~save_count(p, res) /\ ~broadcast_dashboard(p, res) /\ ~broadcast_room(p, res)]_vars

StoppedPipelineIsSilentWitness ==
  \E p \in stopReturned :
    /\ proc[p].task = "done"
    /\ proc[p].last_frame
    /\ rooms[proc[p].room_id] \notin {NoPipe, p}
    /\ proc[rooms[proc[p].room_id]].task = "save"

\* C36: the callback of a result finishes the persistence write before it
\* starts the dashboard broadcast, and that before the room broadcast; when
\* the persistence write raises, neither broadcast is made for the result
CallbackOrder ==
  /\ cycle.room => cycle.dash
  /\ cycle.dash => cycle.saved
  /\ cycle.out = "save_raised" => (~cycle.saved /\ ~cycle.dash /\ ~cycle.room)
  /\ (watch \in 1..created /\ cycle.out \in {"callback", "save_raised"}) =>
       /\ proc[watch].task = "save" => (~cycle.saved /\ ~cycle.dash /\ ~cycle.room)
       /\ proc[watch].task = "dash" => (cycle.saved /\ ~cycle.dash /\ ~cycle.room)
       /\ proc[watch].task = "room" => (cycle.saved /\ cycle.dash /\ ~cycle.room)

CallbackOrderWitness ==
  /\ watch \in 1..created
  /\ cycle.out = "save_raised"
  /\ proc[watch].task = "sleep"
  /\ proc[watch].running
  /\ \E q \in 1..created : q # watch /\ proc[q].task = "room"

\* C37: the callbacks of one pipeline do not overlap and follow the cycles:
\* when the loop goes to its sleep, and when it acquires the frame of the next
\* cycle, the callback of the cycle before has returned or raised
CallbacksInCycleOrder ==
  [][/\ proc'[watch].task = "sleep" => cycle'.out # "callback"
     /\ \A rd \in ReadOutcomes :
          (grab_frame(watch, rd) /\ proc[watch].running) =>
            /\ cycle.out # "callback"
            /\ cycle.out = "ok" => (cycle.saved /\ cycle.dash /\ cycle.room)]_vars

CallbacksInCycleOrderWitness ==
  /\ watch \in 1..created
  /\ proc[watch].task = "save"
  /\ cycle.out = "callback"
  /\ cycle.prev_raised
  /\ cycle.count = 4

\* C38: a CameraCapture holds at most one unreleased capture handle: when the
\* reconnect after a failed read opens a capture, the capture opened before
\* it has been released
SingleCaptureHandle ==
  [][\A rd \in ReadOutcomes, o \in ConnectOutcomes \ {"raised"} :
       (cam_grab_frame(rd, o) /\ camlog'.did_connect) => camera[1].cap # "open"]_vars

\* C39: the alpha of the counter of every started pipeline is the manager's
\* global smoothing_alpha clamped to [0,1], after any add_room and
\* update_settings calls
StartedPipelinesHoldGlobalAlpha ==
  \A p \in Registered :
    proc[p].running =>
      /\ counter[p].alpha = Clamp(settings.smoothing_alpha)
      /\ counter[p].alpha \in 0..10

\* the smallest and the largest of the raw counts of a sequence
MinRaw(q) == CHOOSE x \in {q[k] : k \in DOMAIN q} : \A k \in DOMAIN q : x <= q[k]
MaxRaw(q) == CHOOSE x \in {q[k] : k \in DOMAIN q} : \A k \in DOMAIN q : x >= q[k]

\* C40: with alpha in [0,1], also when set_alpha changes it between updates,
\* the count an update returns lies between the smallest and the largest raw
\* count passed since creation or the last reset; the first update after a
\* reset returns its raw count, whatever came before
SmoothedWithinRawRange ==
  LET n == Len(ctrlog.raws)
  IN n >= 1 =>
       /\ ctrlog.outs[n].count >= MinRaw(ctrlog.raws)
       /\ ctrlog.outs[n].count <= MaxRaw(ctrlog.raws)
       /\ counter[1].smoothed >= MinRaw(ctrlog.raws) * SmoothScale
       /\ counter[1].smoothed <= MaxRaw(ctrlog.raws) * SmoothScale
       /\ n = 1 => ctrlog.outs[1].count = ctrlog.raws[1]

SmoothedWithinRawRangeWitness ==
  /\ ctrlog.was_reset
  /\ ctrlog.raws = <<0, 20, 10>>
  /\ ctrlog.alphas[2] = 3
  /\ ctrlog.alphas[3] = 5
  /\ ctrlog.outs[3].count = 8

====
